---- MODULE Spec2Model ----
(***************************************************************************)
(* Model of the binary packet parser (binary_parser.py) and of the fuzz    *)
(* harness that drives it (fuzzer.py).                                     *)
(*                                                                         *)
(* A bytes object is a sequence of integers 0..255.  Python offsets are    *)
(* 0-based, TLA+ sequences 1-based: Index and Slice do the conversion and  *)
(* keep Python's semantics (an index out of range raises IndexError, a     *)
(* slice is silently clipped to the object).                               *)
(*                                                                         *)
(* An input is a record [type, val]: type is the Python type of the        *)
(* object handed to parse_packet, val its elements.                        *)
(***************************************************************************)
EXTENDS Integers, Sequences, FiniteSets, TLC

VARIABLES input, pc, result, harness, prev, mut, nmut

vars == <<input, pc, result, harness, prev, mut, nmut>>

---------------------------------------------------------------------------
(* Program constants *)

MAGIC_NUMBER == 51966

MAX_PAYLOAD_SIZE == 1024

(* Largest value of the uint16 length field (">H"). *)
UINT16_MAX == 65535

---------------------------------------------------------------------------
(* Bounds of the model *)

(* Longest payload of the exhaustively enumerated seed packets. *)
MaxPayload == 2

(* Number of successive mutations the fuzzer applies to one seed. *)
MaxMutations == 1

(* Byte values of the enumerated seed payloads. *)
PayloadBytes == {0, 65}

(* Byte values a mutation writes or appends. *)
MutBytes == {0, 1, 255}

(* Magic numbers of the seed packets: the right one and a wrong one. *)
SeedMagics == {MAGIC_NUMBER, 51967}

(* Packet types of the seed packets: DATA, CMD, ACK and the unknown 0x05. *)
SeedTypes == {1, 2, 3, 5}

(* Payload lengths at and just above MAX_PAYLOAD_SIZE. *)
BigLens == {MAX_PAYLOAD_SIZE, MAX_PAYLOAD_SIZE + 1}

---------------------------------------------------------------------------
(* Python primitives *)

(* a ^ b on non-negative integers. *)
RECURSIVE Xor(_, _)
Xor(a, b) ==
    IF a = 0 THEN b
    ELSE IF b = 0 THEN a
    ELSE ((a + b) % 2) + 2 * Xor(a \div 2, b \div 2)

(* data[lo:hi] with 0 <= lo, 0 <= hi: clipped to the object, never raises. *)
Slice(data, lo, hi) ==
    LET h == IF hi > Len(data) THEN Len(data) ELSE hi
    IN  IF lo >= h THEN <<>> ELSE SubSeq(data, lo + 1, h)

(* data[i] with 0 <= i: raises IndexError when i is out of range. *)
Index(data, i) ==
    IF i < Len(data) THEN [fault |-> "none", val |-> data[i + 1]]
    ELSE [fault |-> "IndexError", val |-> 0]

(* Mutant: the field is read little-endian ("<H"). *)
struct_unpack_H_LittleEndian(b) ==
    IF Len(b) = 2 THEN [fault |-> "none", val |-> b[2] * 256 + b[1]]
    ELSE [fault |-> "struct.error", val |-> 0]

(* struct.unpack(">H", b)[0]: struct.error unless b holds exactly 2 bytes. *)
struct_unpack_H(b) ==
    IF Len(b) = 2 THEN [fault |-> "none", val |-> b[1] * 256 + b[2]]
    ELSE [fault |-> "struct.error", val |-> 0]

(* struct.pack(">HBH", magic, packet_type, length) for values in range. *)
struct_pack_HBH(magic, packet_type, length) ==
    << magic \div 256, magic % 256, packet_type, length \div 256, length % 256 >>

---------------------------------------------------------------------------
(* calculate_checksum *)

(* XOR of data_bytes[lo..hi] (1-based, inclusive).  The loop of            *)
(* calculate_checksum folds from the left; ^ is associative, so the range  *)
(* is folded by halves, which keeps the evaluation depth logarithmic for    *)
(* payloads of 65535 bytes.                                                *)
RECURSIVE XorRange(_, _, _)
XorRange(data_bytes, lo, hi) ==
    IF lo > hi THEN 0
    ELSE IF lo = hi THEN data_bytes[lo]
    ELSE LET mid == (lo + hi) \div 2
         IN  Xor(XorRange(data_bytes, lo, mid), XorRange(data_bytes, mid + 1, hi))

(* Mutant: the loop skips the first byte. *)
calculate_checksum_SkipFirst(data_bytes) ==
    Xor(0, XorRange(data_bytes, 2, Len(data_bytes)))

calculate_checksum(data_bytes) ==
    Xor(0, XorRange(data_bytes, 1, Len(data_bytes)))

---------------------------------------------------------------------------
(* Outcomes of parse_packet *)

(* return result *)
Return(packet) == [status |-> "ok", packet |-> packet]

(* raise ParsingError(...): kind names the raise site, info the values     *)
(* its message carries.                                                    *)
RaiseParsingError(kind, info) ==
    [status |-> "ParsingError", kind |-> kind, info |-> info]

(* Any other exception leaving parse_packet, by its class name. *)
Raise(exception) == [status |-> exception]

(* No call made yet. *)
NoResult == [status |-> "none"]

---------------------------------------------------------------------------
(* parse_packet, check by check *)

isinstance_bytes(data) == data.type = "bytes"

HeaderTooShort(data) == Len(data) < 5

KnownTypes == {1, 2, 3}

(* Mutant: the commented-out check against MAX_PAYLOAD_SIZE is live. *)
PayloadTooLarge_Enforced(payload_len) == payload_len > MAX_PAYLOAD_SIZE

(* The check against MAX_PAYLOAD_SIZE is commented out: it never fires. *)
PayloadTooLarge(payload_len) == FALSE

(* Mutant: the sum wraps around at 16 bits. *)
expected_total_len_Wrapping(payload_len) == (2 + 1 + 2 + payload_len + 1) % 65536

expected_total_len(payload_len) == 2 + 1 + 2 + payload_len + 1

(* Mutant: the checksum byte is left out of the length check. *)
BodyTooShort_NoChecksumByte(data, payload_len) == Len(data) < 2 + 1 + 2 + payload_len

(* Mutant: the buffer must be exactly as long as the packet. *)
BodyTooShort_Exact(data, payload_len) == Len(data) # expected_total_len(payload_len)

BodyTooShort(data, payload_len) == Len(data) < expected_total_len(payload_len)

(* Mutant: the comparison is an ordering instead of an inequality. *)
ChecksumInvalid_Greater(expected_checksum, actual_checksum) ==
    expected_checksum > actual_checksum

ChecksumInvalid(expected_checksum, actual_checksum) ==
    expected_checksum # actual_checksum

(* Mutant: the guard before payload[0] is missing. *)
CmdPayloadMissing_NoGuard(payload_len, payload) == FALSE

CmdPayloadMissing(payload_len, payload) == payload_len = 0 \/ Len(payload) < 1

(* Steps 3 to 7 of parse_packet: everything after the packet type check. *)
ParseBody(data, magic, packet_type) ==
    LET pl == struct_unpack_H(Slice(data, 3, 5)) IN
    IF pl.fault # "none" THEN Raise(pl.fault) ELSE
    LET payload_len == pl.val IN
    IF PayloadTooLarge(payload_len)
    THEN RaiseParsingError("PayloadTooLarge",
                           [got |-> payload_len, max |-> MAX_PAYLOAD_SIZE]) ELSE
    IF BodyTooShort(data, payload_len)
    THEN RaiseParsingError("InsufficientBody",
                           [expected |-> expected_total_len(payload_len),
                            available |-> Len(data)]) ELSE
    LET payload_start == 5
        payload_end == payload_start + payload_len
        payload == Slice(data, payload_start, payload_end)
        expected_checksum == calculate_checksum(Slice(data, 0, payload_end))
        ac == Index(data, payload_end)
    IN
    IF ac.fault # "none" THEN Raise(ac.fault) ELSE
    LET actual_checksum == ac.val IN
    IF ChecksumInvalid(expected_checksum, actual_checksum)
    THEN RaiseParsingError("ChecksumMismatch",
                           [expected |-> expected_checksum,
                            actual |-> actual_checksum]) ELSE
    IF packet_type = 2
    THEN IF CmdPayloadMissing(payload_len, payload)
         THEN RaiseParsingError("EmptyCommandPayload", <<>>)
         ELSE LET cc == Index(payload, 0) IN
              IF cc.fault # "none" THEN Raise(cc.fault)
              ELSE Return([magic |-> magic, type |-> packet_type,
                           payload_len |-> payload_len, payload |-> payload,
                           checksum |-> actual_checksum,
                           command_code |-> cc.val])
    ELSE Return([magic |-> magic, type |-> packet_type,
                 payload_len |-> payload_len, payload |-> payload,
                 checksum |-> actual_checksum])

(* Mutant: the packet type is checked before the magic number. *)
parse_packet_TypeFirst(data) ==
    IF ~isinstance_bytes(data) THEN Raise("TypeError") ELSE
    IF HeaderTooShort(data.val)
    THEN RaiseParsingError("InsufficientHeader", [available |-> Len(data.val)]) ELSE
    LET t == Index(data.val, 2) IN
    IF t.fault # "none" THEN Raise(t.fault) ELSE
    LET packet_type == t.val IN
    IF packet_type \notin KnownTypes
    THEN RaiseParsingError("UnknownType", [got |-> packet_type]) ELSE
    LET m == struct_unpack_H(Slice(data.val, 0, 2)) IN
    IF m.fault # "none" THEN Raise(m.fault) ELSE
    LET magic == m.val IN
    IF magic # MAGIC_NUMBER
    THEN RaiseParsingError("InvalidMagic", [got |-> magic]) ELSE
    ParseBody(data.val, magic, packet_type)

parse_packet(data) ==
    IF ~isinstance_bytes(data) THEN Raise("TypeError") ELSE
    IF HeaderTooShort(data.val)
    THEN RaiseParsingError("InsufficientHeader", [available |-> Len(data.val)]) ELSE
    LET m == struct_unpack_H(Slice(data.val, 0, 2)) IN
    IF m.fault # "none" THEN Raise(m.fault) ELSE
    LET magic == m.val IN
    IF magic # MAGIC_NUMBER
    THEN RaiseParsingError("InvalidMagic", [got |-> magic]) ELSE
    LET t == Index(data.val, 2) IN
    IF t.fault # "none" THEN Raise(t.fault) ELSE
    LET packet_type == t.val IN
    IF packet_type \notin KnownTypes
    THEN RaiseParsingError("UnknownType", [got |-> packet_type]) ELSE
    ParseBody(data.val, magic, packet_type)

---------------------------------------------------------------------------
(* The fuzz harness *)

(* What TestOneInput does with the outcome of parse_packet: a returned     *)
(* packet or a ParsingError is swallowed, IndexError, struct.error,        *)
(* TypeError and OverflowError are printed and re-raised, and any other    *)
(* exception propagates as well.                                           *)
HarnessOutcome(r) ==
    IF r.status \in {"ok", "ParsingError"} THEN "pass" ELSE "reraise"

---------------------------------------------------------------------------
(* Inputs *)

Bytes(val) == [type |-> "bytes", val |-> val]

(* header + payload + checksum of everything before it. *)
Encode(magic, packet_type, payload) ==
    LET packet_data_no_checksum ==
            struct_pack_HBH(magic, packet_type, Len(payload)) \o payload
    IN  packet_data_no_checksum \o << calculate_checksum(packet_data_no_checksum) >>

SmallPayloads == UNION { [1..n -> PayloadBytes] : n \in 0..MaxPayload }

LongPayload(n) == [i \in 1..n |-> 65 + (i % 3)]

BigPayloads == { LongPayload(n) : n \in BigLens }

(* The longest packet the format allows: a CMD packet of 65535 payload bytes. *)
longest_packet == Encode(MAGIC_NUMBER, 2, LongPayload(UINT16_MAX))

(* Headers that declare more payload than follows: 65535 bytes or one     *)
(* byte more than the longest small payload declared, at most MaxPayload   *)
(* bytes present after the header.                                         *)
LengthInconsistent ==
    { struct_pack_HBH(MAGIC_NUMBER, t, n) \o body :
        t \in KnownTypes, n \in {UINT16_MAX, MaxPayload + 1},
        body \in SmallPayloads }

(* The 3-byte buffer of the "Curto" example. *)
invalid_packet_short == << 202, 254, 1 >>

(* Objects that are not bytes: a str and a bytearray. *)
NonBytesInputs ==
    { [type |-> "str", val |-> << 202, 254 >>],
      [type |-> "bytearray", val |-> Encode(MAGIC_NUMBER, 1, << 65 >>)] }

Seeds ==
    { Bytes(Encode(m, t, p)) : m \in SeedMagics, t \in SeedTypes, p \in SmallPayloads }
    \cup { Bytes(Encode(MAGIC_NUMBER, t, p)) : t \in KnownTypes, p \in BigPayloads }
    \cup { Bytes(longest_packet), Bytes(invalid_packet_short) }
    \cup { Bytes(val) : val \in LengthInconsistent }
    \cup NonBytesInputs

(* The fuzzer mutates a small buffer anywhere and a large one only at its   *)
(* end (the checksum byte).                                                *)
IsSmall(val) == Len(val) <= 5 + MaxPayload + 1 + MaxMutations

(* Offsets a mutation overwrites. *)
MutOffsets(val) ==
    IF IsSmall(val) THEN 0..(Len(val) - 1) ELSE { Len(val) - 1 }

(* Lengths a buffer is cut to. *)
CutLengths(val) ==
    IF IsSmall(val) THEN 0..(Len(val) - 1) ELSE { Len(val) - 1 }

NoMutation == [op |-> "seed", pos |-> 0, byte |-> 0]

---------------------------------------------------------------------------
(* State machine *)

Init ==
    /\ input \in Seeds
    /\ pc = "ready"
    /\ result = NoResult
    /\ harness = "none"
    /\ prev = NoResult
    /\ mut = NoMutation
    /\ nmut = 0

(* One call of TestOneInput(data). *)
TestOneInput ==
    /\ pc = "ready"
    /\ result' = parse_packet(input)
    /\ harness' = HarnessOutcome(result')
    /\ pc' = IF harness' = "pass" THEN "done" ELSE "crashed"
    /\ UNCHANGED <<input, prev, mut, nmut>>

(* The fuzzer derives its next input from the last one. *)
NextInput(val, m) ==
    /\ pc = "done"
    /\ nmut < MaxMutations
    /\ input' = Bytes(val)
    /\ mut' = m
    /\ nmut' = nmut + 1
    /\ prev' = result
    /\ result' = NoResult
    /\ harness' = "none"
    /\ pc' = "ready"

ChangeByte ==
    \E i \in MutOffsets(input.val), b \in MutBytes :
        /\ b # input.val[i + 1]
        /\ NextInput([input.val EXCEPT ![i + 1] = b],
                     [op |-> "change", pos |-> i, byte |-> b])

AppendByte ==
    \E b \in MutBytes :
        NextInput(input.val \o << b >>,
                  [op |-> "append", pos |-> Len(input.val), byte |-> b])

Truncate ==
    \E n \in CutLengths(input.val) :
        NextInput(Slice(input.val, 0, n), [op |-> "truncate", pos |-> n, byte |-> 0])

Next == TestOneInput \/ ChangeByte \/ AppendByte \/ Truncate

Spec == Init /\ [][Next]_vars

---------------------------------------------------------------------------
(* The wire format as the specification states it, independent of the      *)
(* parser's own operators.                                                 *)

Bit(x, k) == (x \div (2 ^ k)) % 2

(* Bit k of the XOR of d[1..n]: the parity of the bytes that have bit k. *)
ParityBit(d, n, k) == Cardinality({ i \in 1..n : Bit(d[i], k) = 1 }) % 2

(* XOR of the first n bytes of d. *)
XorOfPrefix(d, n) ==
    ParityBit(d, n, 0) + 2 * ParityBit(d, n, 1) + 4 * ParityBit(d, n, 2)
    + 8 * ParityBit(d, n, 3) + 16 * ParityBit(d, n, 4) + 32 * ParityBit(d, n, 5)
    + 64 * ParityBit(d, n, 6) + 128 * ParityBit(d, n, 7)

(* The input is a bytes object and parse_packet has run on it. *)
ParsedBytes == pc # "ready" /\ input.type = "bytes"

(* Header fields of a buffer of at least 5 bytes. *)
WireMagic(d) == d[1] * 256 + d[2]

WireType(d) == d[3]

WireLength(d) == d[4] * 256 + d[5]

(* Offset (0-based) of the checksum byte. *)
ChecksumOffset(d) == 5 + WireLength(d)

HasBody(d) == Len(d) >= 5 /\ Len(d) >= 5 + WireLength(d) + 1

ChecksumMatches(d) == d[ChecksumOffset(d) + 1] = XorOfPrefix(d, ChecksumOffset(d))

(* The first check, in the documented order, that the buffer violates. *)
FirstViolation(d) ==
    IF Len(d) < 5 THEN "InsufficientHeader"
    ELSE IF WireMagic(d) # 51966 THEN "InvalidMagic"
    ELSE IF WireType(d) \notin {1, 2, 3} THEN "UnknownType"
    ELSE IF Len(d) < 5 + WireLength(d) + 1 THEN "InsufficientBody"
    ELSE IF ~ChecksumMatches(d) THEN "ChecksumMismatch"
    ELSE IF WireType(d) = 2 /\ WireLength(d) = 0 THEN "EmptyCommandPayload"
    ELSE "none"

(* The checks the buffer violates, each taken on its own (a field that is  *)
(* not there to be read violates nothing).                                 *)
Violations(d) ==
    { k \in {"InsufficientHeader", "InvalidMagic", "UnknownType", "InsufficientBody",
             "ChecksumMismatch", "EmptyCommandPayload"} :
        \/ k = "InsufficientHeader" /\ Len(d) < 5
        \/ k = "InvalidMagic" /\ Len(d) >= 2 /\ WireMagic(d) # 51966
        \/ k = "UnknownType" /\ Len(d) >= 3 /\ WireType(d) \notin {1, 2, 3}
        \/ k = "InsufficientBody" /\ Len(d) >= 5 /\ ~HasBody(d)
        \/ k = "ChecksumMismatch" /\ HasBody(d) /\ ~ChecksumMatches(d)
        \/ k = "EmptyCommandPayload" /\ Len(d) >= 5 /\ WireType(d) = 2
              /\ WireLength(d) = 0 }

WellFormed(d) == FirstViolation(d) = "none"

IsError(r, kind) == r.status = "ParsingError" /\ r.kind = kind

---------------------------------------------------------------------------
(* Claims *)

C2_FirstViolatedCheckReported ==
    ParsedBytes =>
        IF FirstViolation(input.val) = "none"
        THEN result.status = "ok"
        ELSE IsError(result, FirstViolation(input.val))

(* A CMD packet with payload_length 0 and a wrong checksum byte violates   *)
(* two checks and reports ChecksumMismatch.                                *)
C2_Witness ==
    /\ ParsedBytes
    /\ {"ChecksumMismatch", "EmptyCommandPayload"} \subseteq Violations(input.val)
    /\ IsError(result, "ChecksumMismatch")

(* C3: a buffer with a good magic and type that is shorter than            *)
(* 5 + payload_length + 1 fails with InsufficientBody, expected being      *)
(* exactly 5 + payload_length + 1 and available len(data).                 *)
C3_InsufficientBodyExact ==
    ( /\ ParsedBytes
      /\ Len(input.val) >= 5
      /\ WireMagic(input.val) = 51966
      /\ WireType(input.val) \in {1, 2, 3}
      /\ Len(input.val) < 5 + WireLength(input.val) + 1 ) =>
        /\ IsError(result, "InsufficientBody")
        /\ result.info.expected = 5 + WireLength(input.val) + 1
        /\ result.info.available = Len(input.val)

(* A header declaring 65535 payload bytes was rejected with expected 65541. *)
C3_Witness ==
    /\ ParsedBytes
    /\ Len(input.val) >= 5
    /\ WireLength(input.val) = 65535
    /\ IsError(result, "InsufficientBody")
    /\ result.info.expected = 65541

(* C4: a buffer that is the encoding of (packet_type, payload), with the   *)
(* type DATA, CMD or ACK and the payload non-empty for CMD, is accepted    *)
(* and decodes to the same type, length and payload.                       *)
C4_RoundTrip ==
    ( /\ ParsedBytes
      /\ Len(input.val) >= 6
      /\ Len(input.val) <= 6 + 65535
      /\ WireType(input.val) \in {1, 2, 3}
      /\ ~(WireType(input.val) = 2 /\ Len(input.val) = 6)
      /\ input.val = Encode(51966, WireType(input.val),
                            SubSeq(input.val, 6, Len(input.val) - 1)) ) =>
        /\ result.status = "ok"
        /\ result.packet.type = WireType(input.val)
        /\ result.packet.payload_len = Len(input.val) - 6
        /\ result.packet.payload = SubSeq(input.val, 6, Len(input.val) - 1)

(* The encoding of an ACK packet with a 1024-byte payload was decoded. *)
C4_Witness ==
    /\ ParsedBytes
    /\ mut.op = "seed"
    /\ input.val = Encode(51966, 3, LongPayload(1024))
    /\ result.status = "ok"
    /\ result.packet.payload = LongPayload(1024)

(* C5: overwriting the checksum byte of an accepted buffer with another    *)
(* value makes parse_packet fail with ChecksumMismatch, expected the XOR   *)
(* of the bytes before it and actual the byte written.                     *)
C5_ChecksumByteFlip ==
    ( /\ ParsedBytes
      /\ mut.op = "change"
      /\ prev.status = "ok"
      /\ mut.pos = 5 + prev.packet.payload_len ) =>
        /\ IsError(result, "ChecksumMismatch")
        /\ result.info.expected = XorOfPrefix(input.val, mut.pos)
        /\ result.info.actual = mut.byte

(* The checksum byte of an accepted DATA packet was overwritten by 0xFF. *)
C5_Witness ==
    /\ ParsedBytes
    /\ mut.op = "change"
    /\ prev.status = "ok"
    /\ prev.packet.type = 1
    /\ mut.pos = 5 + prev.packet.payload_len
    /\ mut.byte = 255
    /\ IsError(result, "ChecksumMismatch")

C7_InvalidInputCategorized ==
    (pc # "ready" /\ input.type # "bytes") =>
        /\ IsError(result, "InvalidInput")
        /\ harness = "pass"

(* C8: a returned packet has magic 0xCAFE, a known type, a payload that is *)
(* exactly data[5 : 5 + payload_len], a checksum that is the byte after    *)
(* the payload and the XOR of everything before it, and a command_code if  *)
(* and only if it is a CMD packet, then equal to the first payload byte.   *)
C8_PacketInvariants ==
    (ParsedBytes /\ result.status = "ok") =>
        LET p == result.packet
            d == input.val
        IN  /\ p.magic = 51966
            /\ p.type \in {1, 2, 3}
            /\ Len(d) >= 5 + p.payload_len + 1
            /\ p.payload_len = WireLength(d)
            /\ Len(p.payload) = p.payload_len
            /\ p.payload = SubSeq(d, 6, 5 + p.payload_len)
            /\ p.checksum = d[5 + p.payload_len + 1]
            /\ p.checksum = XorOfPrefix(d, 5 + p.payload_len)
            /\ ("command_code" \in DOMAIN p) <=> (p.type = 2)
            /\ p.type = 2 => (p.payload_len >= 1 /\ p.command_code = p.payload[1])

(* A CMD packet with a 2-byte payload was returned with its command_code. *)
C8_Witness ==
    /\ ParsedBytes
    /\ result.status = "ok"
    /\ result.packet.type = 2
    /\ result.packet.payload_len = 2
    /\ result.packet.command_code = 65

(* C9: MAX_PAYLOAD_SIZE is never consulted: a well-formed packet with a    *)
(* payload_length above 1024 is accepted, and no error is ever raised for  *)
(* the payload size.                                                       *)
C9_NoPayloadLimit ==
    ParsedBytes =>
        /\ ( /\ WellFormed(input.val)
             /\ WireLength(input.val) > 1024 ) =>
                /\ result.status = "ok"
                /\ result.packet.payload_len = WireLength(input.val)
        /\ result.status = "ParsingError" =>
                result.kind \in {"InsufficientHeader", "InvalidMagic", "UnknownType",
                                 "InsufficientBody", "ChecksumMismatch",
                                 "EmptyCommandPayload"}

(* The packet with the largest payload the length field can declare,       *)
(* 65535 bytes, was accepted.                                              *)
C9_Witness ==
    /\ ParsedBytes
    /\ result.status = "ok"
    /\ result.packet.payload_len = 65535
    /\ Len(result.packet.payload) = 65535

(* C10: the outcome for a buffer of at least 5 + payload_length + 1 bytes  *)
(* is the outcome for its first 5 + payload_length + 1 bytes alone, and    *)
(* appending a byte to such a buffer leaves the outcome as it was.         *)
C10_TrailingBytesIgnored ==
    (ParsedBytes /\ HasBody(input.val)) =>
        /\ result = parse_packet(Bytes(SubSeq(input.val, 1, 5 + WireLength(input.val) + 1)))
        /\ (mut.op = "append" /\ Len(input.val) - 1 >= 5 + WireLength(input.val) + 1)
              => result = prev

(* A byte was appended to an accepted packet, which is accepted again. *)
C10_Witness ==
    /\ ParsedBytes
    /\ mut.op = "append"
    /\ prev.status = "ok"
    /\ Len(input.val) = 5 + WireLength(input.val) + 2
    /\ result.status = "ok"

====
